---- MODULE Spec2Model ----
(***************************************************************************)
(* Model of app/app.py: a Flask application with two view functions,       *)
(* hello ('/') and health ('/health'), started by app.run on 0.0.0.0:5000. *)
(*                                                                         *)
(* The state is the process: where it is in its life (pc), its             *)
(* environment (environ, port_in_use), the socket it bound                 *)
(* (server_address), the application object's routing table (url_map,      *)
(* view_functions, which holds the view functions with their literals), the *)
(* requests being handled by worker threads (inflight) and the responses   *)
(* written so far, in order (log).  Strings are TLA+ strings; the URL      *)
(* matching, the response conversion and the JSON encoding are computed    *)
(* on them character by character.                                         *)
(***************************************************************************)
EXTENDS Integers, Sequences, FiniteSets, Bags, TLC

VARIABLES pc, environ, port_in_use, server_address, url_map, view_functions, inflight, log

vars == <<pc, environ, port_in_use, server_address, url_map, view_functions, inflight, log>>

(***************************************************************************)
(* Bounds and inputs                                                       *)
(***************************************************************************)
\* Requests received over the life of one process.
MaxRequests == 3

\* The requests clients send: method and path (PATH_INFO).
Paths == {"/", "/health", "/nonexistent", "/health/", "//health", "/static/app.css"}
Requests ==
    ({"GET"} \X Paths)
        \cup {<<"HEAD", "/">>, <<"POST", "/">>, <<"POST", "//health">>,
              <<"OPTIONS", "/static/app.css">>}

\* Environment variables a deployment may set; "" stands for unset.
EnvNames == {"HOST", "PORT"}
EnvValues == [HOST |-> {"", "127.0.0.1"}, PORT |-> {"", "8080"}]

(***************************************************************************)
(* Strings                                                                 *)
(***************************************************************************)
Char(s, i) == IF 1 <= i /\ i <= Len(s) THEN SubSeq(s, i, i) ELSE ""

\* str.split("/"): the pieces of s between its slashes.
split(s) ==
    LET slashes == {i \in 1..Len(s) : Char(s, i) = "/"}
        n == Cardinality(slashes)
        cut(k) == IF k = 0 THEN 0
                  ELSE IF k > n THEN Len(s) + 1
                  ELSE CHOOSE p \in slashes : Cardinality({q \in slashes : q < p}) = k - 1
    IN  [k \in 1..(n + 1) |-> SubSeq(s, cut(k - 1) + 1, cut(k) - 1)]

\* "/".join(parts)
RECURSIVE join(_)
join(parts) ==
    IF parts = <<>> THEN ""
    ELSE IF Len(parts) = 1 THEN parts[1]
    ELSE parts[1] \o "/" \o join(Tail(parts))

\* re.sub("/{2,}", "/", path) on the split path: a run of slashes becomes one
\* slash, that is, every empty piece between two slashes goes.
merge_slashes(parts) ==
    LET keep == {k \in 1..Len(parts) : k = 1 \/ k = Len(parts) \/ parts[k] # ""}
        nth(m) == CHOOSE k \in keep : Cardinality({j \in keep : j < k}) = m - 1
    IN  [m \in 1..Cardinality(keep) |-> parts[nth(m)]]

(***************************************************************************)
(* The application object: app = Flask(__name__) and the two @app.route    *)
(***************************************************************************)
\* Methods of a rule registered without methods=: GET, with HEAD and the
\* automatic OPTIONS added.
DefaultMethods == {"GET", "HEAD", "OPTIONS"}

\* A rule as url_map holds it: compiled into its parts when it is added.
Rule(rule, endpoint) ==
    [rule |-> rule, parts |-> split(rule), endpoint |-> endpoint, methods |-> DefaultMethods]

\* Flask(__name__) registers the static route; the decorators add the rest.
StaticRule == Rule("/static/<path:filename>", "static")
HelloRule == Rule("/", "hello")
HealthRule == Rule("/health", "health")

\* One part of a rule against the parts of a path: a static part matches
\* itself, the path converter matches everything left if it starts with a
\* character other than '/'.
RECURSIVE MatchParts(_, _)
MatchParts(rparts, pparts) ==
    IF rparts = <<>> THEN pparts = <<>>
    ELSE IF pparts = <<>> THEN FALSE
    ELSE IF Head(rparts) = "<path:filename>" THEN Head(pparts) # ""
    ELSE Head(rparts) = Head(pparts) /\ MatchParts(Tail(rparts), Tail(pparts))

\* Matching as with strict_slashes=False: a trailing slash is ignored.
RuleMatchesLoose(r, pparts) ==
    \/ MatchParts(r.parts, pparts)
    \/ /\ Len(pparts) > 2
       /\ pparts[Len(pparts)] = ""
       /\ MatchParts(r.parts, SubSeq(pparts, 1, Len(pparts) - 1))

\* Rule.match on a split path.
RuleMatches(r, pparts) == MatchParts(r.parts, pparts)

\* The result of routing: an endpoint, or the routing exception's status.
Routed(endpoint) == [endpoint |-> endpoint, exception |-> 0, location |-> ""]
RoutingException(code, location) == [endpoint |-> "", exception |-> code, location |-> location]

\* MapAdapter.match: the first rule that matches path and method; a path
\* that matches only after its slashes are merged is redirected to the merged
\* path; a path some rule matches for another method is 405, anything else 404.
match(map, method, path) ==
    LET Route(pparts) ==
            LET mparts == merge_slashes(pparts)
                any == {i \in 1..Len(map) : RuleMatches(map[i], pparts)}
                anyMerged == {i \in 1..Len(map) : RuleMatches(map[i], mparts)}
                hits == {i \in any : method \in map[i].methods}
                hitsMerged == {i \in anyMerged : method \in map[i].methods}
            IN  IF hits # {}
                THEN Routed(map[CHOOSE i \in hits : \A j \in hits : i <= j].endpoint)
                ELSE IF hitsMerged # {} THEN RoutingException(308, join(mparts))
                ELSE IF any \cup anyMerged # {} THEN RoutingException(405, "")
                ELSE RoutingException(404, "")
    IN  CHOOSE routing \in {Route(pparts) : pparts \in {split(path)}} : TRUE

(***************************************************************************)
(* The view functions                                                      *)
(***************************************************************************)
\* What a view returns: a str, a (dict, status) tuple, or a raised
\* HTTPException.  dict is the sequence of its items; status 0 is "none given".
ReturnStr(text) == [type |-> "str", text |-> text, dict |-> <<>>, status |-> 0]
ReturnDict(dict, status) == [type |-> "dict", text |-> "", dict |-> dict, status |-> status]
Raise(code) == [type |-> "abort", text |-> "", dict |-> <<>>, status |-> code]

StatusOK == 200

\* hello as it was before the version was changed from 1.0 to 2.0.
hello_stale == ReturnStr("Hello from Jenkins CI/CD! Version: 1.0")

hello == ReturnStr("Hello from Jenkins CI/CD! Version: 2.0")

\* health reporting one key more.
health_extra_key == ReturnDict(<< <<"status", "healthy">>, <<"version", "2.0">> >>, 200)

health == ReturnDict(<< <<"status", "healthy">> >>, StatusOK)

\* Flask.send_static_file: the repository ships no static folder, so every
\* file name is missing and send_from_directory raises NotFound.
send_static_file == Raise(404)

(***************************************************************************)
(* Responses                                                               *)
(***************************************************************************)
Response(status, content_type, body, endpoint) ==
    [status |-> status, content_type |-> content_type, body |-> body,
     endpoint |-> endpoint, location |-> "", allow |-> {}]

\* json.dumps of a dict of strings with separators (",", ":").
Quote(s) == "\"" \o s \o "\""

RECURSIVE DumpItems(_)
DumpItems(items) ==
    IF items = <<>> THEN ""
    ELSE Quote(Head(items)[1]) \o ":" \o Quote(Head(items)[2])
         \o (IF Len(items) > 1 THEN "," ELSE "") \o DumpItems(Tail(items))

dumps(dict) == "{" \o DumpItems(dict) \o "}"

\* HTTPException.get_response: an HTML page; only its title line is kept.
ErrorName(code) ==
    CASE code = 404 -> "Not Found"
      [] code = 405 -> "Method Not Allowed"
      [] OTHER -> "Redirecting..."

ErrorResponse(code, endpoint, location, allow) ==
    [status |-> code, content_type |-> "text/html; charset=utf-8",
     body |-> "<title>" \o ToString(code) \o " " \o ErrorName(code) \o "</title>",
     endpoint |-> endpoint, location |-> location, allow |-> allow]

\* make_response with every value sent as the default text/html, as when a
\* view returns json.dumps(...) instead of the dict.
make_response_untyped(rv, endpoint) ==
    IF rv.type = "abort" THEN ErrorResponse(rv.status, endpoint, "", {})
    ELSE Response(IF rv.status # 0 THEN rv.status ELSE 200, "text/html; charset=utf-8",
                  IF rv.type = "str" THEN rv.text ELSE dumps(rv.dict) \o "\n", endpoint)

\* Flask.make_response: a str becomes a text/html response, a dict goes
\* through jsonify, a status given with the value replaces the default 200.
make_response(rv, endpoint) ==
    LET base == IF rv.type = "str"
                THEN Response(200, "text/html; charset=utf-8", rv.text, endpoint)
                ELSE Response(200, "application/json", dumps(rv.dict) \o "\n", endpoint)
    IN  IF rv.type = "abort" THEN ErrorResponse(rv.status, endpoint, "", {})
        ELSE IF rv.status # 0 THEN [base EXCEPT !.status = rv.status]
        ELSE base

\* The methods the url_map allows for a path (the Allow header).
AllowedMethods(map, path) ==
    UNION {map[i].methods : i \in {j \in 1..Len(map) : RuleMatches(map[j], split(path))}}

\* The routing result kept in one place for all workers instead of in each
\* request's context: a worker reads what some matched request left there.
RoutingShared(c) ==
    LET matched == {d \in BagToSet(inflight) : d.stage = "matched"}
    IN  IF matched = {} THEN c.routing ELSE (CHOOSE d \in matched : TRUE).routing

\* The routing result a request context carries into dispatch.
RoutingOf(c) == c.routing

\* Dispatch with a hit counter appended to what the view returned.
full_dispatch_request_counting(c) ==
    LET r == RoutingOf(c)
        resp == IF r.exception # 0 THEN ErrorResponse(r.exception, "", r.location, {})
                ELSE make_response(view_functions[r.endpoint], r.endpoint)
    IN  [resp EXCEPT !.body = @ \o " #" \o ToString(Len(log))]

\* Flask.full_dispatch_request for a request context whose URL was matched:
\* a routing exception becomes its error response, OPTIONS gets the automatic
\* response, otherwise the view runs and its return value is converted; the
\* body of a response to HEAD is not sent.
full_dispatch_request(c) ==
    LET r == RoutingOf(c)
        allowed == AllowedMethods(url_map, IF r.location # "" THEN r.location ELSE c.path)
        resp == IF r.exception = 405 THEN ErrorResponse(405, "", "", allowed)
                ELSE IF r.exception # 0 THEN ErrorResponse(r.exception, "", r.location, {})
                ELSE IF c.method = "OPTIONS"
                     THEN [Response(200, "text/html; charset=utf-8", "", r.endpoint)
                              EXCEPT !.allow = allowed]
                ELSE make_response(view_functions[r.endpoint], r.endpoint)
    IN  IF c.method = "HEAD" THEN [resp EXCEPT !.body = ""] ELSE resp

(***************************************************************************)
(* The entry point: app.run(host='0.0.0.0', port=5000)                     *)
(***************************************************************************)
FlaskPort == 5000

\* int(s) for a string of decimal digits.
RECURSIVE int(_)
int(s) ==
    IF s = "" THEN 0
    ELSE 10 * int(SubSeq(s, 1, Len(s) - 1))
         + (CHOOSE d \in 0..9 : ToString(d) = Char(s, Len(s)))

\* The arguments read from the environment through the imported os module,
\* with the literals as defaults.
MainArgsFromEnv(env) ==
    [host |-> IF env["HOST"] # "" THEN env["HOST"] ELSE "0.0.0.0",
     port |-> IF env["PORT"] # "" THEN int(env["PORT"]) ELSE 5000]

\* The arguments the __main__ block passes to app.run, for a process
\* environment env: both are literals.
MainArgs(env) == [host |-> "0.0.0.0", port |-> FlaskPort]

\* Flask.run: a missing host ("") defaults to 127.0.0.1 and a missing port
\* (-1) to 5000; given ones are used as they are.
run_address(host, port) ==
    <<IF host = "" THEN "127.0.0.1" ELSE host, IF port = -1 THEN FlaskPort ELSE port>>

(***************************************************************************)
(* State and steps                                                         *)
(***************************************************************************)
NoRouting == Routed("")

NReceived == Len(log) + BagCardinality(inflight)

Init ==
    /\ pc = "main"
    /\ environ \in [EnvNames -> {"", "127.0.0.1", "8080"}]
    /\ \A n \in EnvNames : environ[n] \in EnvValues[n]
    /\ server_address = <<>>
    /\ url_map = <<StaticRule, HelloRule, HealthRule>>
    /\ port_in_use \in BOOLEAN
    /\ view_functions = [static |-> send_static_file, hello |-> hello, health |-> health]
    /\ inflight = EmptyBag
    /\ log = <<>>

\* app.run falling back to the next port when the bind fails.
Run_Fallback ==
    /\ pc = "main"
    /\ LET args == MainArgs(environ)
       IN  /\ pc' = "serving"
           /\ server_address' = run_address(args.host,
                                            IF port_in_use THEN args.port + 1 ELSE args.port)
    /\ UNCHANGED <<environ, port_in_use, url_map, view_functions, inflight, log>>

\* app.run: bind the address and start serving; when the bind fails (the port
\* is taken) the error ends the process.
Run ==
    /\ pc = "main"
    /\ LET args == MainArgs(environ)
       IN  IF port_in_use
           THEN pc' = "failed" /\ server_address' = <<>>
           ELSE pc' = "serving" /\ server_address' = run_address(args.host, args.port)
    /\ UNCHANGED <<environ, port_in_use, url_map, view_functions, inflight, log>>

\* The server accepts a request and hands it to a worker thread.
Receive(method, path) ==
    /\ pc = "serving"
    /\ NReceived < MaxRequests
    /\ inflight' = inflight (+) SetToBag({[method |-> method, path |-> path,
                                           stage |-> "received", routing |-> NoRouting]})
    /\ UNCHANGED <<pc, environ, port_in_use, server_address, url_map, view_functions, log>>

\* RequestContext.match_request: the worker matches the URL.
Match(c) ==
    /\ pc = "serving"
    /\ c.stage = "received"
    /\ inflight' = (inflight (-) SetToBag({c}))
                      (+) SetToBag({[c EXCEPT !.stage = "matched",
                                              !.routing = match(url_map, c.method, c.path)]})
    /\ UNCHANGED <<pc, environ, port_in_use, server_address, url_map, view_functions, log>>

\* Dispatch by a handler that bumps the version when it is asked for it.
Dispatch_BumpsVersion(c) ==
    /\ pc = "serving"
    /\ c.stage = "matched"
    /\ inflight' = inflight (-) SetToBag({c})
    /\ log' = Append(log, [method |-> c.method, path |-> c.path,
                           response |-> full_dispatch_request(c)])
    /\ view_functions' =
           IF RoutingOf(c).endpoint = "hello"
           THEN [view_functions EXCEPT
                    !.hello = ReturnStr("Hello from Jenkins CI/CD! Version: 3.0")]
           ELSE view_functions
    /\ UNCHANGED <<pc, environ, port_in_use, server_address, url_map>>

\* Dispatch by a server that stops by itself after its second response.
Dispatch_ExitsAfter(c) ==
    /\ pc = "serving"
    /\ c.stage = "matched"
    /\ inflight' = inflight (-) SetToBag({c})
    /\ log' = Append(log, [method |-> c.method, path |-> c.path,
                           response |-> full_dispatch_request(c)])
    /\ pc' = IF Len(log) >= 1 THEN "exited" ELSE pc
    /\ UNCHANGED <<environ, port_in_use, server_address, url_map, view_functions>>

\* The worker dispatches the request and writes the response.
Dispatch(c) ==
    /\ pc = "serving"
    /\ c.stage = "matched"
    /\ inflight' = inflight (-) SetToBag({c})
    /\ log' = Append(log, [method |-> c.method, path |-> c.path,
                           response |-> full_dispatch_request(c)])
    /\ UNCHANGED <<pc, environ, port_in_use, server_address, url_map, view_functions>>

\* The host (container runtime, CI runner, shell) kills the process: its
\* worker threads, and the requests they were handling, go with it.
Terminate ==
    /\ pc = "serving"
    /\ pc' = "terminated"
    /\ inflight' = EmptyBag
    /\ UNCHANGED <<environ, port_in_use, server_address, url_map, view_functions, log>>

Next ==
    \/ Run
    \/ \E q \in Requests : Receive(q[1], q[2])
    \/ \E c \in BagToSet(inflight) : Match(c)
    \/ \E c \in BagToSet(inflight) : Dispatch(c)
    \/ Terminate

\* The same steps with the clients sending one request of each outcome: a
\* greeting, a health check, an unknown path and a redirected one.
LiveRequests ==
    {<<"GET", "/">>, <<"GET", "/health">>, <<"GET", "/nonexistent">>, <<"GET", "//health">>}

LiveNext ==
    \/ Run
    \/ \E q \in LiveRequests : Receive(q[1], q[2])
    \/ \E c \in BagToSet(inflight) : Match(c)
    \/ \E c \in BagToSet(inflight) : Dispatch(c)
    \/ Terminate

Spec == Init /\ [][Next]_vars

\* Every worker thread that has work is scheduled: a received request is
\* matched and a matched one dispatched.  The host's kill is not fair.
FairSpec ==
    /\ Init
    /\ [][LiveNext]_vars
    /\ WF_vars(\E c \in BagToSet(inflight) : Match(c))
    /\ WF_vars(\E c \in BagToSet(inflight) : Dispatch(c))

(***************************************************************************)
(* What a client sees                                                      *)
(***************************************************************************)
\* The log entries that answer a GET for path.
Answers(path) == {i \in 1..Len(log) : log[i].method = "GET" /\ log[i].path = path}

\* The media type of a Content-Type value: what precedes the parameters.
RECURSIVE MediaTypeFrom(_, _)
MediaTypeFrom(ct, i) ==
    IF i > Len(ct) \/ Char(ct, i) = ";" THEN "" ELSE Char(ct, i) \o MediaTypeFrom(ct, i + 1)

MediaType(ct) == MediaTypeFrom(ct, 1)

\* A JSON decoder for objects whose keys and values are strings without
\* escapes: [ok, obj], obj the set of <<key, value>> members.
JsonError == [ok |-> FALSE, obj |-> {}]

IsSpace(ch) == ch \in {" ", "\n", "\t", "\r"}

RECURSIVE SkipWs(_, _)
SkipWs(s, i) == IF i <= Len(s) /\ IsSpace(Char(s, i)) THEN SkipWs(s, i + 1) ELSE i

\* The index of the next '"' at or after i, 0 when there is none.
RECURSIVE FindQuote(_, _)
FindQuote(s, i) ==
    IF i > Len(s) THEN 0 ELSE IF Char(s, i) = "\"" THEN i ELSE FindQuote(s, i + 1)

RECURSIVE ParseMembers(_, _, _)
ParseMembers(s, i, acc) ==
    LET k1 == SkipWs(s, i)
        k2 == FindQuote(s, k1 + 1)
        colon == SkipWs(s, k2 + 1)
        v1 == SkipWs(s, colon + 1)
        v2 == FindQuote(s, v1 + 1)
        after == SkipWs(s, v2 + 1)
        members == acc \cup {<<SubSeq(s, k1 + 1, k2 - 1), SubSeq(s, v1 + 1, v2 - 1)>>}
    IN  IF Char(s, k1) # "\"" \/ k2 = 0 \/ Char(s, colon) # ":"
           \/ Char(s, v1) # "\"" \/ v2 = 0
        THEN JsonError
        ELSE IF Char(s, after) = "," THEN ParseMembers(s, after + 1, members)
        ELSE IF Char(s, after) = "}" /\ SkipWs(s, after + 1) > Len(s)
             THEN [ok |-> TRUE, obj |-> members]
        ELSE JsonError

loads(s) ==
    LET open == SkipWs(s, 1)
        first == SkipWs(s, open + 1)
    IN  IF Char(s, open) # "{" THEN JsonError
        ELSE IF Char(s, first) = "}"
             THEN IF SkipWs(s, first + 1) > Len(s) THEN [ok |-> TRUE, obj |-> {}] ELSE JsonError
        ELSE ParseMembers(s, first, {})

\* The version the source is configured with, and the greeting it stands in.
VERSION == 2

Greeting(n) == "Hello from Jenkins CI/CD! Version: " \o ToString(n) \o ".0"

(***************************************************************************)
(* Claims                                                                  *)
(***************************************************************************)
\* C1: every GET for '/' is answered with status 200 and the body
\* 'Hello from Jenkins CI/CD! Version: <N>.0' for the configured version N,
\* whatever was served before.
C1_HelloAnswer ==
    \A i \in Answers("/") :
        /\ log[i].response.status = 200
        /\ log[i].response.body = Greeting(VERSION)

\* C1 witness: a GET for '/' answered after two requests of other kinds.
C1_Witness ==
    /\ Len(log) >= 3
    /\ 3 \in Answers("/")
    /\ log[1].path # "/"
    /\ log[2].path # "/"
    /\ log[3].response.body = "Hello from Jenkins CI/CD! Version: 2.0"

\* C2: every GET for '/health' is answered with status 200 and a JSON body
\* that decodes to exactly the object {"status": "healthy"}.
C2_HealthAnswer ==
    \A i \in Answers("/health") :
        /\ log[i].response.status = 200
        /\ loads(log[i].response.body) = [ok |-> TRUE, obj |-> {<<"status", "healthy">>}]

\* C2 witness: a GET for '/health' answered after two other requests.
C2_Witness ==
    /\ Len(log) >= 3
    /\ 3 \in Answers("/health")
    /\ log[1].path # "/health"
    /\ log[2].path # "/health"
    /\ log[3].response.status = 200

C4_Idempotent ==
    \A p \in {"/", "/health"} :
        \A i, j \in Answers(p) : log[i].response = log[j].response

\* C4 witness: the same GET answered twice with another request between.
C4_Witness ==
    /\ Len(log) >= 3
    /\ \E p \in {"/", "/health"} : 1 \in Answers(p) /\ 3 \in Answers(p)
    /\ log[2].path # log[1].path

\* C5 as claimed: the response to GET '/' is text/plain and the response to
\* GET '/health' is JSON.
C5_PlainText ==
    /\ \A i \in Answers("/") : MediaType(log[i].response.content_type) = "text/plain"
    /\ \A i \in Answers("/health") :
           MediaType(log[i].response.content_type) = "application/json"

\* C5 as amended: the response to GET '/' carries the framework's default
\* content type for a returned string, text/html, and the response to
\* GET '/health' carries application/json.
C5_HtmlAndJson ==
    /\ \A i \in Answers("/") : MediaType(log[i].response.content_type) = "text/html"
    /\ \A i \in Answers("/health") :
           MediaType(log[i].response.content_type) = "application/json"

\* C5 witness: both endpoints have answered a GET.
C5_Witness == Answers("/") # {} /\ Answers("/health") # {}

\* The response a request gets from a server that serves nothing else: its
\* URL matched and dispatched in one go.
ServeAlone(method, path) ==
    full_dispatch_request([method |-> method, path |-> path, stage |-> "matched",
                           routing |-> match(url_map, method, path)])

\* C6: the server started by the __main__ block listens on 0.0.0.0:5000 and
\* nowhere else, whatever the process environment holds.
C6_FixedAddress ==
    /\ pc \in {"serving", "terminated"} => server_address = <<"0.0.0.0", 5000>>
    /\ pc \in {"main", "failed"} => server_address = <<>>

\* C6 witness: a serving process whose environment sets HOST and PORT.
C6_Witness ==
    /\ pc = "serving"
    /\ environ["HOST"] = "127.0.0.1"
    /\ environ["PORT"] = "8080"
    /\ server_address # <<>>

\* C7: no step of request handling changes the registered routes or the view
\* functions, so the version in hello's literal stays the one of the source.
C7_NoSideEffects ==
    [][/\ url_map' = url_map
       /\ view_functions' = view_functions
       /\ view_functions'.hello.text = Greeting(VERSION)]_vars

\* C7 witness: '/', '/health' and an unknown path have been served and the
\* routes are those registered at import.
C7_Witness ==
    /\ Answers("/") # {}
    /\ Answers("/health") # {}
    /\ Answers("/nonexistent") # {}
    /\ url_map = <<StaticRule, HelloRule, HealthRule>>
    /\ DOMAIN view_functions = {"static", "hello", "health"}

\* C8: with requests in flight together and handled in any interleaving,
\* each response is the one its request's method and path get when served
\* alone.
C8_Independent ==
    \A i \in 1..Len(log) : log[i].response = ServeAlone(log[i].method, log[i].path)

\* C8 witness: a response was written while two requests routed to
\* different results were both waiting for their dispatch.
C8_Witness ==
    /\ Len(log) >= 1
    /\ \E c, d \in BagToSet(inflight) :
          /\ c.stage = "matched"
          /\ d.stage = "matched"
          /\ c.routing # d.routing

\* C9: when the port is taken the process ends in failure having bound
\* nothing and answered nothing, and stays ended; a serving process is never
\* moved to a failed state, it only goes on serving or is terminated.
C9_StartupFailureFatal ==
    [][/\ (port_in_use /\ pc = "main")
            => (pc' = "failed" /\ server_address' = <<>> /\ log' = <<>>
                /\ inflight' = EmptyBag)
       /\ pc = "failed" => pc' = "failed"
       /\ pc' = "failed" => (pc = "main" /\ port_in_use)
       /\ pc = "serving" => pc' \in {"serving", "terminated"}]_vars

\* C9 witness: the process has failed on a taken port.
C9_Witness == pc = "failed" /\ port_in_use /\ log = <<>> /\ server_address = <<>>

\* C10 as claimed: the server leaves the serving state only by the host's
\* termination, and every request received is eventually answered.
C10_AllAnswered ==
    /\ [][(pc = "serving" /\ pc' # "serving") => (Terminate /\ pc' = "terminated")]_vars
    /\ \A k \in 1..MaxRequests : (NReceived >= k) ~> (Len(log) >= k)

\* C10 as amended: the server leaves the serving state only by the host's
\* termination, and every request received is eventually answered unless the
\* host terminates the process first.
C10_AnsweredUnlessTerminated ==
    /\ [][(pc = "serving" /\ pc' # "serving") => (Terminate /\ pc' = "terminated")]_vars
    /\ \A k \in 1..MaxRequests :
          (NReceived >= k) ~> (Len(log) >= k \/ pc = "terminated")

\* C10 witness: still serving after every request it received was answered.
C10_Witness == pc = "serving" /\ Len(log) >= 3 /\ inflight = EmptyBag
====
